---- MODULE Spec2Model ----
(***************************************************************************)
(* Model of stake/collect.py: the capture-decision loop of powalert.       *)
(*                                                                         *)
(* Units.  Snowfall amounts are integers in thousandths of a centimetre,   *)
(* inches are integers in millionths of an inch, image bytes are small     *)
(* integers that index a table of encoded images, and time is counted in   *)
(* minutes (the resolution of the archival file name).                     *)
(***************************************************************************)
EXTENDS Integers, Sequences, FiniteSets, TLC

\* ------------------------------------------------------------------ bounds
MaxMinute == 1
MaxRuns == 2

\* ------------------------------------------------------- policy constants
SNOW_3H_MICRO_IN == 250000
SNOW_6H_MICRO_IN == 1000000
DIFF_THRESHOLD == 3

\* ------------------------------------------------------------ JSON values
JNull == [t |-> "null", v |-> 0]
JNum(n) == [t |-> "num", v |-> n]
JStr(len) == [t |-> "str", v |-> len]

\* Python truthiness of a JSON scalar: None, 0 and "" are falsy.
Truthy(j) == j.t \in {"num", "str"} /\ j.v # 0

Min(a, b) == IF a <= b THEN a ELSE b

Take(s, n) == SubSeq(s, 1, Min(n, Len(s)))

\* ============================================================ forecast gate
\* cm_to_in raises TypeError on a truthy non-number.
CmToInRaises(x) == Truthy(x) /\ x.t # "num"

\* (x or 0) / 2.54, thousandths of a centimetre to millionths of an inch,
\* rounded down.  The series below stay clear of the thresholds, where the
\* rounding of Python's floats would matter.
cm_to_in(x) == IF Truthy(x) THEN (x.v * 100000) \div 254 ELSE 0

RECURSIVE SumIn(_)
SumIn(s) == IF s = <<>> THEN 0 ELSE cm_to_in(Head(s)) + SumIn(Tail(s))

NoHourly == [t |-> "absent", snowfall |-> <<>>, time |-> 0]

\* What requests.get(...) and r.json() can produce for the forecast URL.
\* net = "err": the request raises.  json.t = "invalid": r.json() raises.
Series ==
    { <<>>,
      <<JNum(0), JNum(0), JNum(0), JNum(0), JNum(0), JNum(0)>>,
      <<JNum(700), JNum(0), JNum(0), JNum(0), JNum(0), JNum(0)>>,
      <<JNum(200), JNum(200), JNum(200), JNum(700), JNum(700), JNum(700)>>,
      <<JNull, JNum(700), JNull>>,
      <<JNum(300), JNum(300)>>,
      <<JNum(0), JNum(0), JNum(0), JNum(0), JNum(0), JNum(0), JNum(3000)>>,
      <<JNum(0), JStr(3)>> }

ForecastResponses ==
    { [net |-> "err", json |-> [t |-> "invalid", hourly |-> NoHourly]],
      [net |-> "ok", json |-> [t |-> "invalid", hourly |-> NoHourly]],
      [net |-> "ok", json |-> [t |-> "list", hourly |-> NoHourly]],
      [net |-> "ok", json |-> [t |-> "obj", hourly |-> NoHourly]],
      [net |-> "ok", json |-> [t |-> "obj",
           hourly |-> [t |-> "null", snowfall |-> <<>>, time |-> 0]]],
      [net |-> "ok", json |-> [t |-> "obj",
           hourly |-> [t |-> "list", snowfall |-> <<>>, time |-> 0]]] }
    \cup { [net |-> "ok", json |-> [t |-> "obj",
           hourly |-> [t |-> "obj", snowfall |-> s, time |-> Len(s)]]] : s \in Series }
    \cup { [net |-> "ok", json |-> [t |-> "obj",
           hourly |-> [t |-> "obj", snowfall |-> <<JNum(700)>>, time |-> 0]]] }

NoForecast == [net |-> "none", json |-> [t |-> "invalid", hourly |-> NoHourly]]

Returned(n3, n6) == [raised |-> FALSE, next3 |-> n3, next6 |-> n6]
Raised == [raised |-> TRUE, next3 |-> 0, next6 |-> 0]

get_snow_forecast(resp) ==
    IF resp.net = "err" \/ resp.json.t = "invalid"
    THEN Returned(0, 0)                       \* except: return (0, 0)
    ELSE IF resp.json.t # "obj"
    THEN Raised                               \* j.get on a non-dict
    ELSE IF resp.json.hourly.t \notin {"absent", "obj"}
    THEN Raised                               \* hourly.get on None or a list
    ELSE LET snowfall == resp.json.hourly.snowfall
             times == resp.json.hourly.time
         IN  IF snowfall = <<>> \/ times = 0
             THEN Returned(0, 0)
             ELSE IF \E i \in 1..Min(6, Len(snowfall)) : CmToInRaises(snowfall[i])
             THEN Raised
             ELSE Returned(SumIn(Take(snowfall, 3)), SumIn(Take(snowfall, 6)))

SnowSignal(f) == f.next3 >= SNOW_3H_MICRO_IN \/ f.next6 >= SNOW_6H_MICRO_IN

\* ================================================================== images
\* Encoded images.  dec: whether Image.open can decode the bytes; px: the
\* structural content of the decoded picture, as the set of its marked
\* pixels.  Bytes are indexes into this table; NONE is Python's None.
NONE == 0
IMG_A == 1
IMG_B == 2
IMG_E == 3

Undecodable == [dec |-> FALSE, px |-> {}]

Content(b) ==
    CASE b = IMG_A -> [dec |-> TRUE, px |-> {}]
      [] b = IMG_B -> [dec |-> TRUE, px |-> {<<0, 0>>, <<1, 0>>, <<0, 1>>, <<5, 5>>}]
      [] OTHER -> Undecodable                 \* e.g. an HTML error page

ImageIds == {IMG_A, IMG_B, IMG_E}

\* ----------------------------------------------------------------- cropping
\* "x1, y1, x2, y2 = crop" sits outside the try block: a truthy crop that
\* does not unpack into four values raises ValueError.
CropRaises(crop) == crop.t = "list" /\ Len(crop.v) \notin {0, 4}

\* apply_crop for a crop that unpacks (or is falsy).
apply_crop(img, crop) ==
    IF crop.t = "null" \/ crop.v = <<>>
    THEN img                                  \* if not crop
    ELSE IF ~img.dec
    THEN img                                  \* except: return img_bytes
    ELSE LET x1 == crop.v[1]
             y1 == crop.v[2]
             x2 == crop.v[3]
             y2 == crop.v[4]
             inside == {p \in img.px :
                          x1 <= p[1] /\ p[1] < x2 /\ y1 <= p[2] /\ p[2] < y2}
         IN  [dec |-> TRUE, px |-> {<<p[1] - x1, p[2] - y1>> : p \in inside}]

\* ------------------------------------------------------------------- pHash
\* The fingerprint of a decodable image is its bit set; None when decoding
\* fails.
get_phash(img) == [ok |-> img.dec, bits |-> img.px]

\* ImageHash.__sub__: the number of differing bits.
Hamming(a, b) == Cardinality((a \ b) \cup (b \ a))

\* Mutation of Verdict: the threshold itself counts as different.
Verdict_ge(diff) == diff >= DIFF_THRESHOLD

\* return diff > 3
Verdict(diff) == diff > DIFF_THRESHOLD

\* Mutation of Comparable: the candidate's fingerprint is not examined.
Comparable_old_only(old_hash, new_hash) == old_hash.ok

\* "if not old_hash or not new_hash" is the negation of this.
Comparable(old_hash, new_hash) == old_hash.ok /\ new_hash.ok

\* ====================================================== reference resolver
NoEntry == [kind |-> "none", minute |-> 0, content |-> NONE, modified |-> 0]

RECURSIVE InsertDesc(_, _)
\* Insert e after every element whose key is >= its own: a stable
\* descending order, as list.sort(key=..., reverse=True) gives.
InsertDesc(e, s) ==
    IF s = <<>> THEN <<e>>
    ELSE IF Head(s).modified >= e.modified
         THEN <<Head(s)>> \o InsertDesc(e, Tail(s))
         ELSE <<e>> \o s

\* Mutation of SortByModifiedDesc: reverse=True is forgotten.
RECURSIVE InsertAsc(_, _)
InsertAsc(e, s) ==
    IF s = <<>> THEN <<e>>
    ELSE IF Head(s).modified <= e.modified
         THEN <<Head(s)>> \o InsertAsc(e, Tail(s))
         ELSE <<e>> \o s

RECURSIVE SortAsc(_)
SortAsc(s) ==
    IF s = <<>> THEN <<>>
    ELSE InsertAsc(s[Len(s)], SortAsc(SubSeq(s, 1, Len(s) - 1)))

RECURSIVE SortByModifiedDesc(_)
\* files.sort(key=lambda f: f.client_modified, reverse=True)
SortByModifiedDesc(s) ==
    IF s = <<>> THEN <<>>
    ELSE InsertDesc(s[Len(s)], SortByModifiedDesc(SubSeq(s, 1, Len(s) - 1)))

\* [entry for entry in res.entries if isinstance(entry, FileMetadata)]
FilesOf(entries) == SelectSeq(entries, LAMBDA e : e.kind = "file")

\* get_latest_dropbox_image.  client: dbx is set; listed: files_list_folder
\* returned; entries: res.entries; downloaded: files_download returned.
\* The result names why None was returned, the entry chosen and its bytes.
NoReference(why) == [why |-> why, latest |-> NoEntry, bytes |-> NONE]

get_latest_dropbox_image(client, listed, entries, downloaded) ==
    IF ~client THEN NoReference("noclient")
    ELSE IF ~listed THEN NoReference("listfail")
    ELSE LET files == FilesOf(entries)
         IN  IF files = <<>> THEN NoReference("empty")
             ELSE LET latest == SortByModifiedDesc(files)[1]
                  IN  IF ~downloaded
                      THEN [why |-> "dlfail", latest |-> latest, bytes |-> NONE]
                      ELSE [why |-> "ok", latest |-> latest, bytes |-> latest.content]

\* ============================================================== visual gate
NoGate == [ran |-> FALSE, raised |-> FALSE, verdict |-> TRUE, why |-> "none",
           latest |-> NoEntry, ref |-> NONE, old_ok |-> FALSE, new_ok |-> FALSE,
           compared |-> FALSE, diff |-> 0]

\* is_meaningfully_different(new_bytes, name, crop), given what the
\* resolver returned.
is_meaningfully_different(new_bytes, crop, res) ==
    LET base == [NoGate EXCEPT !.ran = TRUE, !.why = res.why,
                               !.latest = res.latest, !.ref = res.bytes]
    IN  IF res.bytes = NONE
        THEN base                             \* no reference: True
        ELSE IF CropRaises(crop)
        THEN [base EXCEPT !.raised = TRUE]
        ELSE LET old_hash == get_phash(apply_crop(Content(res.bytes), crop))
                 new_hash == get_phash(apply_crop(Content(new_bytes), crop))
                 diff == Hamming(old_hash.bits, new_hash.bits)
                 seen == [base EXCEPT !.old_ok = old_hash.ok, !.new_ok = new_hash.ok]
             IN  IF ~Comparable(old_hash, new_hash)
                 THEN seen                    \* can't compare: keep
                 ELSE [seen EXCEPT !.compared = TRUE, !.diff = diff,
                                   !.verdict = Verdict(diff)]

\* ============================================================ configuration
\* One entry of stake_sources.json.  keys: the keys the object has; a
\* missing optional key reads as None through src.get.
Entry(keys, name, lat, lon, crop) ==
    [keys |-> keys, name |-> name, lat |-> lat, lon |-> lon, crop |-> crop]

NoCrop == [t |-> "null", v |-> <<>>]
CropList(v) == [t |-> "list", v |-> v]

AllKeys == {"name", "snapshot_url", "lat", "lon", "crop"}

E_ALTA == Entry(AllKeys, "Alta", JNum(40), JNum(-111), NoCrop)
E_ZERO == Entry(AllKeys, "Alta", JNum(0), JNum(-111), NoCrop)
E_BIRD == Entry({"name", "snapshot_url", "crop"}, "Bird", JNull, JNull,
                CropList(<<0, 0, 2, 2>>))
E_BADCROP == Entry({"name", "snapshot_url", "crop"}, "Bird", JNull, JNull,
                   CropList(<<0, 0, 2>>))
E_NONAME == Entry({"snapshot_url"}, "", JNull, JNull, NoCrop)
E_NOURL == Entry({"name"}, "Alta", JNull, JNull, NoCrop)

Configs ==
    { <<E_ALTA, E_BIRD>>,
      <<E_ZERO, E_ALTA>>,
      <<E_BADCROP, E_ALTA>>,
      <<E_NONAME, E_NOURL>> }

Names == {"Alta", "Bird"}
Minutes == 0..MaxMinute
Paths == Names \X Minutes

\* What requests.get(url, timeout=10, verify=False) can produce: it raises
\* (net = "err") or returns a response whose content is taken whatever its
\* status.
SnapshotResponses ==
    { [net |-> "err", status |-> 0, content |-> NONE] }
    \cup { [net |-> "ok", status |-> 200, content |-> b] : b \in ImageIds \ {IMG_E} }
    \cup { [net |-> "ok", status |-> 404, content |-> IMG_E] }

\* ==================================================================== state
VARIABLES
    dbx,        \* whether a Dropbox client was built at import time
    sources,    \* the content of stake_sources.json
    archive,    \* the Dropbox store: path -> entry
    subdirs,    \* source folders that also hold a sub-folder entry
    now,        \* the UTC minute
    runs,       \* how many times main() has been started
    pc,         \* position of main(): idle, entry, weather, fetch, gate,
                \* save, upload, done, crashed
    idx,        \* position of the for loop in sources
    capture,    \* local of main
    img_bytes,  \* local of main
    status,     \* HTTP status of the snapshot response
    fminute,    \* the minute in fname
    fc,         \* the forecast response of this evaluation
    gate,       \* what is_meaningfully_different saw and returned
    decision,   \* outcome of this evaluation: none, keep, skip, nofetch
    saved,      \* this evaluation wrote the local file
    uploaded,   \* this evaluation's files_upload returned
    prev        \* per name: the object the last successful upload wrote

vars == <<dbx, sources, archive, subdirs, now, runs, pc, idx, capture,
          img_bytes, status, fminute, fc, gate, decision, saved, uploaded, prev>>

FileEntry(minute, content, modified) ==
    [kind |-> "file", minute |-> minute, content |-> content, modified |-> modified]

FolderEntry == [kind |-> "folder", minute |-> 0, content |-> NONE, modified |-> 0]

EmptyStore == [p \in Paths |-> NoEntry]

\* Stores a run can find: what earlier runs of this program left there.
InitStores ==
    { [objs |-> EmptyStore, subdirs |-> {"Bird"}],
      [objs |-> [EmptyStore EXCEPT ![<<"Alta", 0>>] = FileEntry(0, IMG_A, 0)],
       subdirs |-> {}],
      [objs |-> [EmptyStore EXCEPT ![<<"Alta", 0>>] = FileEntry(0, IMG_A, 0),
                                   ![<<"Bird", 0>>] = FileEntry(0, IMG_A, 0)],
       subdirs |-> {"Alta"}] }

NoPrev == [bytes |-> NONE, minute |-> 0]

Init ==
    /\ dbx \in BOOLEAN
    /\ sources \in Configs
    /\ \E st \in InitStores : archive = st.objs /\ subdirs = st.subdirs
    /\ now = 0
    /\ runs = 0
    /\ pc = "idle"
    /\ idx = 1
    /\ capture = FALSE
    /\ img_bytes = NONE
    /\ status = 0
    /\ fminute = 0
    /\ fc = NoForecast
    /\ gate = NoGate
    /\ decision = "none"
    /\ saved = FALSE
    /\ uploaded = FALSE
    /\ prev = [n \in Names |-> NoPrev]

src == sources[idx]

\* The entries of folder /powalert/{name}, as a set.
FolderEntries(name) ==
    { archive[p] : p \in {q \in Paths : q[1] = name /\ archive[q].kind = "file"} }
    \cup (IF name \in subdirs THEN {FolderEntry} ELSE {})

\* res.entries: the folder's entries in any order.
Listings(name) ==
    LET S == FolderEntries(name)
        n == Cardinality(S)
    IN  { s \in [1..n -> S] : \A x \in S : \E i \in 1..n : s[i] = x }

\* "continue", or the end of the loop body.
NextSource ==
    /\ idx' = idx + 1
    /\ pc' = IF idx + 1 > Len(sources) THEN "done" ELSE "entry"

\* ================================================================== actions
\* with open(CFG) as f: sources = json.load(f) -- a new run of the script.
LoadConfig ==
    /\ pc \in {"idle", "done", "crashed"}
    /\ runs < MaxRuns
    /\ runs' = runs + 1
    /\ idx' = 1
    /\ pc' = IF Len(sources) = 0 THEN "done" ELSE "entry"
    /\ capture' = FALSE
    /\ img_bytes' = NONE
    /\ status' = 0
    /\ fc' = NoForecast
    /\ gate' = NoGate
    /\ decision' = "none"
    /\ saved' = FALSE
    /\ uploaded' = FALSE
    /\ UNCHANGED <<dbx, sources, archive, subdirs, now, fminute, prev>>

\* name = src["name"]; url = src["snapshot_url"]; ...; capture = False
ReadEntry ==
    /\ pc = "entry"
    /\ pc' = IF {"name", "snapshot_url"} \subseteq src.keys
             THEN "weather"
             ELSE "crashed"                   \* KeyError leaves main()
    /\ capture' = FALSE
    /\ img_bytes' = NONE
    /\ status' = 0
    /\ fc' = NoForecast
    /\ gate' = NoGate
    /\ decision' = "none"
    /\ saved' = FALSE
    /\ uploaded' = FALSE
    /\ UNCHANGED <<dbx, sources, archive, subdirs, now, runs, idx, fminute, prev>>

\* if lat and lon:
HasCoordinates(lat, lon) == Truthy(lat) /\ Truthy(lon)

\* The weather gate of main.
WeatherGate ==
    /\ pc = "weather"
    /\ IF HasCoordinates(src.lat, src.lon)
       THEN \E resp \in ForecastResponses :
              LET f == get_snow_forecast(resp)
              IN  /\ fc' = resp
                  /\ pc' = IF f.raised THEN "crashed" ELSE "fetch"
                  /\ capture' = (~f.raised /\ SnowSignal(f))
       ELSE /\ fc' = NoForecast
            /\ pc' = "fetch"
            /\ capture' = capture
    /\ UNCHANGED <<dbx, sources, archive, subdirs, now, runs, idx, img_bytes,
                   status, fminute, gate, decision, saved, uploaded, prev>>

\* Whether the try block around requests.get raises.
FetchFailed(r) == r.net = "err"

\* "Always fetch snapshot".
FetchSnapshot ==
    /\ pc = "fetch"
    /\ \E r \in SnapshotResponses :
         IF FetchFailed(r)
         THEN /\ decision' = "nofetch"
              /\ NextSource
              /\ UNCHANGED <<img_bytes, status>>
         ELSE /\ img_bytes' = r.content
              /\ status' = r.status
              /\ pc' = "gate"
              /\ UNCHANGED <<idx, decision>>
    /\ fc' = NoForecast
    /\ UNCHANGED <<dbx, sources, archive, subdirs, now, runs, capture, fminute,
                   gate, saved, uploaded, prev>>

\* Mutation of NeedsVisualCheck: the weather verdict does not short-circuit.
NeedsVisualCheck_always(cap) == TRUE

\* if not capture:
NeedsVisualCheck(cap) == ~cap

\* The visual-diff gate of main.
VisualGate ==
    /\ pc = "gate"
    /\ IF NeedsVisualCheck(capture)
       THEN \E listed \in BOOLEAN, downloaded \in BOOLEAN,
               entries \in Listings(src.name) :
              LET res == get_latest_dropbox_image(dbx, listed, entries, downloaded)
                  g == is_meaningfully_different(img_bytes, src.crop, res)
              IN  /\ gate' = g
                  /\ IF g.raised
                     THEN /\ pc' = "crashed"
                          /\ UNCHANGED <<idx, decision>>
                     ELSE IF ~g.verdict
                     THEN /\ decision' = "skip"
                          /\ NextSource
                     ELSE /\ decision' = "keep"
                          /\ pc' = "save"
                          /\ UNCHANGED idx
       ELSE /\ gate' = NoGate
            /\ decision' = "keep"
            /\ pc' = "save"
            /\ UNCHANGED idx
    /\ UNCHANGED <<dbx, sources, archive, subdirs, now, runs, capture, img_bytes,
                   status, fminute, fc, saved, uploaded, prev>>

\* os.makedirs, fname from the UTC minute, open(local_path, "wb"), write.
SaveLocal ==
    /\ pc = "save"
    /\ fminute' = now
    /\ gate' = NoGate
    /\ \E written \in BOOLEAN :
         IF written
         THEN saved' = TRUE /\ pc' = "upload"
         ELSE saved' = saved /\ pc' = "crashed"     \* OSError leaves main()
    /\ UNCHANGED <<dbx, sources, archive, subdirs, now, runs, idx, capture,
                   img_bytes, status, fc, decision, uploaded, prev>>

\* f"/powalert/{name}/{basename(local_path)}"
RemoteFile(name, minute) == <<name, minute>>

\* Mutation of files_upload: the folder is replaced by the new file.
files_upload_clobber(store, path, bytes, t) ==
    [p \in Paths |-> IF p = path THEN FileEntry(path[2], bytes, t)
                     ELSE IF p[1] = path[1] THEN NoEntry ELSE store[p]]

\* Mutation of files_upload: WriteMode.add, an existing object is left alone.
files_upload_add(store, path, bytes, t) ==
    IF store[path].kind = "file" THEN store
    ELSE [store EXCEPT ![path] = FileEntry(path[2], bytes, t)]

\* dbx.files_upload(bytes, remote_file, mode=WriteMode.overwrite)
files_upload(store, path, bytes, t) ==
    [store EXCEPT ![path] = FileEntry(path[2], bytes, t)]

\* upload_dropbox(local_path, name), then the loop goes on.
Upload ==
    /\ pc = "upload"
    /\ IF ~dbx
       THEN UNCHANGED <<archive, uploaded, prev>>   \* "No Dropbox configured"
       ELSE \E ok \in BOOLEAN :
              IF ok
              THEN /\ archive' = files_upload(archive, RemoteFile(src.name, fminute),
                                              img_bytes, now)
                   /\ uploaded' = TRUE
                   /\ prev' = [prev EXCEPT ![src.name] =
                                   [bytes |-> img_bytes, minute |-> fminute]]
              ELSE UNCHANGED <<archive, uploaded, prev>>   \* except Exception: print
    /\ NextSource
    /\ fminute' = 0                           \* local_path is dead from here on
    /\ UNCHANGED <<dbx, sources, subdirs, now, runs, capture, img_bytes, status,
                   fc, gate, decision, saved>>

\* The wall clock reaches the next minute.  The script reads the clock only
\* when it names the file, so the minute is let pass between runs and right
\* before the naming; a file is named and uploaded within one minute.
Tick ==
    /\ now < MaxMinute
    /\ pc \in {"idle", "save", "done", "crashed"}
    /\ now' = now + 1
    /\ UNCHANGED <<dbx, sources, archive, subdirs, runs, pc, idx, capture,
                   img_bytes, status, fminute, fc, gate, decision, saved,
                   uploaded, prev>>

Next ==
    \/ LoadConfig
    \/ ReadEntry
    \/ WeatherGate
    \/ FetchSnapshot
    \/ VisualGate
    \/ SaveLocal
    \/ Upload
    \/ Tick

Spec == Init /\ [][Next]_vars

\* =================================================================== claims
\* The source whose evaluation decision, gate, saved and uploaded describe:
\* "continue" has already moved idx on when pc is entry or done.
EvalSrc == sources[IF pc \in {"entry", "done"} THEN idx - 1 ELSE idx]

\* The files of folder /powalert/{name}.
Files(name) ==
    { archive[p] : p \in {q \in Paths : q[1] = name /\ archive[q].kind = "file"} }

\* The distance the visual gate should have found for this evaluation.
ExpectedDiff ==
    Hamming(get_phash(apply_crop(Content(gate.ref), EvalSrc.crop)).bits,
            get_phash(apply_crop(Content(img_bytes), EvalSrc.crop)).bits)

\* C1: once the forecast gate signals snow (next3h >= 0.25 in or next6h >=
\* 1.0 in) and the candidate was fetched, the decision is keep whatever the
\* archive holds; a skip happens only with capture false.
C1_SnowSignalKeeps ==
    /\ (pc = "fetch" /\ fc.net # "none" /\ SnowSignal(get_snow_forecast(fc)))
          => capture
    /\ (capture /\ img_bytes # NONE /\ pc # "gate") => decision = "keep"
    /\ decision = "skip" => ~capture

\* C1 witness: a snow signal keeps a candidate that is byte-identical to
\* the latest archived image of its source.
C1_Witness ==
    /\ capture /\ dbx /\ pc = "save" /\ decision = "keep"
    /\ \E l \in Listings(src.name) :
         get_latest_dropbox_image(TRUE, TRUE, l, TRUE).bytes = img_bytes

\* C2: with no snow signal, a resolved reference and both fingerprints
\* computed, the verdict is keep iff the Hamming distance exceeds 3; a
\* candidate identical to the reference is skipped; a skipped candidate is
\* neither written locally nor uploaded.
C2_KeepIffDistanceAboveThreshold ==
    LET cmp == gate.ran /\ gate.ref # NONE /\ gate.old_ok /\ gate.new_ok
    IN  /\ cmp => (decision = "keep" <=> ExpectedDiff > DIFF_THRESHOLD)
        /\ (cmp /\ gate.ref = img_bytes) => decision = "skip"
        /\ decision = "skip" => (~saved /\ ~uploaded)

\* C2 witness: a candidate identical to its reference was compared and
\* skipped.
C2_Witness ==
    /\ decision = "skip" /\ gate.compared /\ gate.ref = img_bytes
    /\ ~saved /\ ~uploaded

\* C3: the visual gate fails open.  No client, an empty or missing folder,
\* a failed listing, a failed download or a failed fingerprint all give
\* keep; a skip needs a resolved reference, two fingerprints and a distance
\* of at most 3.
C3_VisualGateFailsOpen ==
    /\ (gate.ran /\ ~gate.raised
          /\ gate.why \in {"noclient", "listfail", "empty", "dlfail"})
          => decision = "keep"
    /\ (gate.ran /\ ~dbx) => decision = "keep"
    /\ (gate.ran /\ ~gate.raised /\ gate.why = "ok"
          /\ ~(gate.old_ok /\ gate.new_ok))
          => decision = "keep"
    /\ decision = "skip"
          => /\ gate.ran /\ gate.why = "ok" /\ gate.ref # NONE
             /\ Content(gate.ref).dec /\ Content(img_bytes).dec
             /\ gate.old_ok /\ gate.new_ok
             /\ ExpectedDiff <= DIFF_THRESHOLD

\* C3 witness: a reference was resolved, the candidate could not be
\* fingerprinted, and the candidate was kept.
C3_Witness ==
    /\ gate.ran /\ gate.why = "ok" /\ gate.old_ok /\ ~gate.new_ok
    /\ decision = "keep"

\* A forecast outcome the claim C4 lists as a failure: a network error, a
\* body that is not JSON, or JSON of an unexpected shape.
ForecastFailure(resp) ==
    \/ resp.net = "err"
    \/ resp.json.t # "obj"
    \/ resp.json.hourly.t \in {"null", "list"}
    \/ \E i \in 1..Len(resp.json.hourly.snowfall) :
         resp.json.hourly.snowfall[i].t = "str"

\* C4: the forecast gate never raises: after any failed forecast request
\* the weather verdict is false and the evaluation goes on to the fetch and
\* the visual gate.
C4_ForecastGateNeverRaises ==
    (fc.net # "none" /\ ForecastFailure(fc)) => (pc = "fetch" /\ ~capture)

\* C5: no failure while evaluating one source keeps a later source from
\* being evaluated: every run reaches the end of the list.
C5_RunReachesEndOfList ==
    pc \in {"done", "crashed"} => idx = Len(sources) + 1

\* C6 as claimed: every object of the archive keeps its bytes through every
\* step, two keeps of one name within one minute included.
C6_AppendOnly ==
    [][\A p \in Paths :
         archive[p].kind = "file"
            => (archive'[p].kind = "file"
                /\ archive'[p].content = archive[p].content)]_vars

\* C6 as amended: no step deletes an object, and the only object a step
\* can change is the one at the path the upload writes to, which then
\* holds the candidate's bytes.
C6_OnlyUploadPathReplaced ==
    [][/\ \A p \in Paths :
            archive[p].kind = "file"
               => /\ archive'[p].kind = "file"
                  /\ archive'[p] # archive[p]
                       => /\ pc = "upload"
                          /\ p = <<src.name, fminute>>
                          /\ archive'[p].content = img_bytes
       /\ Cardinality({p \in Paths : archive'[p] # archive[p]}) <= 1]_vars

\* C6 witness: in the store that began with Alta's object of minute 0
\* holding IMG_A, an upload has replaced that object's bytes.
C6_Witness ==
    /\ subdirs = {} /\ uploaded
    /\ archive[<<"Alta", 0>>].kind = "file"
    /\ archive[<<"Alta", 0>>].content = IMG_B

\* C7: when the candidate cannot be fetched (the request raises, or the
\* snapshot URL answers with an HTTP error status) there is no decision,
\* nothing is written and nothing is uploaded.
C7_NoDecisionWithoutCandidate ==
    (decision = "nofetch" \/ status >= 400)
        => (decision \in {"none", "nofetch"} /\ ~saved /\ ~uploaded)

\* A series whose entries are all numbers or null.
NumericSeries(resp) ==
    /\ resp.net = "ok" /\ resp.json.t = "obj" /\ resp.json.hourly.t = "obj"
    /\ \A i \in 1..Len(resp.json.hourly.snowfall) :
         resp.json.hourly.snowfall[i].t \in {"num", "null"}

\* The verdict C8 states for a series.
SeriesSnow(s) ==
    \/ SumIn(Take(s, 3)) >= SNOW_3H_MICRO_IN
    \/ SumIn(Take(s, 6)) >= SNOW_6H_MICRO_IN

\* C8: a source with a latitude and a longitude (0 included) has the gate
\* queried, and capture is decided by the snowfall series alone; a source
\* without coordinates is not queried and capture is false.
C8_CaptureDecidedBySeries ==
    pc = "fetch" =>
        IF src.lat.t = "num" /\ src.lon.t = "num"
        THEN /\ fc.net # "none"
             /\ NumericSeries(fc) => (capture <=> SeriesSnow(fc.json.hourly.snowfall))
        ELSE fc.net = "none" /\ ~capture

\* What C9 says of the bytes the resolver returns.
LatestOfSource ==
    gate.ref # NONE
       => /\ gate.latest \in Files(EvalSrc.name)
          /\ gate.ref = gate.latest.content
          /\ \A f \in Files(EvalSrc.name) : f.modified <= gate.latest.modified

\* C9 as claimed: the resolver returns the bytes of the latest object of
\* the source, and none only when the folder is empty or missing or the
\* listing or the download fails.
C9_NoneOnlyOnEmptyOrFailure ==
    gate.ran
       => /\ LatestOfSource
          /\ gate.ref = NONE
               => \/ Files(EvalSrc.name) = {}
                  \/ gate.why \in {"listfail", "dlfail"}

\* C9 as amended: none is also what the resolver returns when no archive
\* client is configured.
C9_LatestOrNone ==
    gate.ran
       => /\ LatestOfSource
          /\ gate.ref = NONE
               => \/ ~dbx
                  \/ Files(EvalSrc.name) = {}
                  \/ gate.why \in {"listfail", "dlfail"}

\* C9 witness: the resolver returned bytes from a folder of two objects.
C9_Witness ==
    /\ gate.ran /\ gate.ref # NONE
    /\ Cardinality(Files(EvalSrc.name)) >= 2

\* The visual gate ran on a decodable candidate whose bytes are those of
\* the last successful upload for the same name.
SameBytesAgain ==
    /\ gate.ran
    /\ img_bytes # NONE
    /\ prev[EvalSrc.name].bytes = img_bytes
    /\ Content(img_bytes).dec

C10_State ==
    /\ (SameBytesAgain /\ gate.why = "ok")
          => /\ gate.latest.minute = prev[EvalSrc.name].minute
             /\ gate.ref = img_bytes
             /\ decision # "keep" /\ ~saved /\ ~uploaded
             /\ ~gate.raised => decision = "skip"
             /\ gate.raised => (CropRaises(EvalSrc.crop) /\ pc = "crashed")
    /\ (SameBytesAgain /\ gate.why # "ok") => decision = "keep"
    /\ (gate.ran /\ ~dbx) => decision = "keep"

====
